---- MODULE Spec2Model ----
(***************************************************************************)
(* Model of templates/resources/scripts/graph.js: the window state         *)
(* (array_length), the stored history (temp_parsedResponse), the chart     *)
(* built from it (graph), what the page shows (chart, valueFields), and    *)
(* the handlers loadData / its fetch callback, updateGraph and             *)
(* customTimestamp.                                                        *)
(*                                                                         *)
(* Numbers.  JavaScript numbers are modelled as exact rationals            *)
(* [n |-> numerator, d |-> denominator] in lowest terms with d > 0; NaN is *)
(* [n |-> 0, d |-> 0].  For the decimal inputs enumerated below (at most   *)
(* one fractional digit, magnitude < 10^4) the IEEE double h*6 has the     *)
(* same integer part, the same sign and is an integer exactly when the     *)
(* rational h*6 is, so truncation and comparisons agree with the doubles.  *)
(*                                                                         *)
(* Arrays.  The records of the remote series are numbered by their ordinal *)
(* in the service's ascending time order.  An array of records is the run  *)
(* [def |-> TRUE, first |-> f, len |-> n] holding the records f .. f+n-1   *)
(* in that order; Array.prototype.slice maps a run to a run.  The value    *)
(* `undefined` is [def |-> FALSE, first |-> 0, len |-> 0].                 *)
(***************************************************************************)
EXTENDS Integers, Sequences, FiniteSets, TLC

VARIABLES
    options,              \* the page's options object (only timeframe is read by the window logic)
    array_length,         \* global: current sample count (line 19)
    temp_parsedResponse,  \* global: the full fetched history (line 29)
    graph,                \* global: the records the Rickshaw graph's four series are unpacked from (line 28)
    chart,                \* DOM: what #chart shows: blank page, cleared by clearGraph, or rendered
    valueFields,          \* DOM: the record shown in the four latest-value fields (lines 181-184)
    inflight,             \* fetches started by loadData whose response has not been handled
    loads,                \* number of fetches issued so far
    windowRequested,      \* history: updateGraph or customTimestamp has been called
    last                  \* history: the last handler run, its input and what it did

vars == <<options, array_length, temp_parsedResponse, graph, chart, valueFields,
          inflight, loads, windowRequested, last>>

----------------------------------------------------------------------------
(* Bounds of the model *)

MaxLoads == 2
SmallMax == 3
ShortStore == 50
MidStore == 100
BigStore == 10000
FullStore == 13000

----------------------------------------------------------------------------
(* Rational arithmetic for JavaScript numbers *)

Abs(i) == IF i < 0 THEN -i ELSE i
Min(a, b) == IF a <= b THEN a ELSE b
Max(a, b) == IF a >= b THEN a ELSE b

RECURSIVE GCD(_, _)
GCD(a, b) == IF b = 0 THEN a ELSE GCD(b, a % b)

NaN == [n |-> 0, d |-> 0]
IsNaN(x) == x.d = 0

Rat(num, den) ==
    LET g == GCD(Abs(num), den) IN [n |-> num \div g, d |-> den \div g]

Num(i) == [n |-> i, d |-> 1]

\* comparisons with NaN are false, as in JavaScript
Leq(x, y) == ~IsNaN(x) /\ ~IsNaN(y) /\ x.n * y.d <= y.n * x.d
Geq(x, y) == Leq(y, x)
Lt(x, y) == ~IsNaN(x) /\ ~IsNaN(y) /\ x.n * y.d < y.n * x.d

Times(x, k) == IF IsNaN(x) THEN NaN ELSE Rat(x.n * k, x.d)
Minus(x, y) == IF IsNaN(x) \/ IsNaN(y) THEN NaN ELSE Rat(x.n * y.d - y.n * x.d, x.d * y.d)

IsInteger(x) == x.d = 1

\* ToIntegerOrInfinity: NaN becomes 0, otherwise truncate toward zero
Trunc(x) ==
    IF IsNaN(x) THEN 0
    ELSE IF x.n >= 0 THEN x.n \div x.d ELSE -((-x.n) \div x.d)

\* Math.floor, used only to state the documented sample count
Floor(x) == x.n \div x.d

----------------------------------------------------------------------------
(* Strings are sequences of characters; prompt() returns one, or null *)

Null == <<"null">>
WhiteSpace == {" "}
DigitChars == {"0", "1", "2", "3", "4", "5", "6", "7", "8", "9"}

DigitVal(c) ==
    CASE c = "0" -> 0 [] c = "1" -> 1 [] c = "2" -> 2 [] c = "3" -> 3 [] c = "4" -> 4
      [] c = "5" -> 5 [] c = "6" -> 6 [] c = "7" -> 7 [] c = "8" -> 8 [] c = "9" -> 9

RECURSIVE PrefixLen(_, _)
PrefixLen(s, S) ==
    IF s = <<>> \/ Head(s) \notin S THEN 0 ELSE 1 + PrefixLen(Tail(s), S)

Drop(s, k) == SubSeq(s, k + 1, Len(s))

RECURSIVE DigitsValue(_)
DigitsValue(s) ==
    IF s = <<>> THEN 0
    ELSE DigitsValue(SubSeq(s, 1, Len(s) - 1)) * 10 + DigitVal(s[Len(s)])

RECURSIVE Pow10(_)
Pow10(k) == IF k = 0 THEN 1 ELSE 10 * Pow10(k - 1)

(* The longest prefix of s that is a StrDecimalLiteral after leading white   *)
(* space: an optional sign, digits, an optional fraction.  (Exponents and    *)
(* "Infinity" need the letters e, I, which the enumerated inputs lack.)      *)
NumericPrefix(s) ==
    LET ws == PrefixLen(s, WhiteSpace)
        t == Drop(s, ws)
        hasSign == t # <<>> /\ Head(t) \in {"+", "-"}
        u == IF hasSign THEN Tail(t) ELSE t
        ni == PrefixLen(u, DigitChars)
        v == Drop(u, ni)
        hasDot == v # <<>> /\ Head(v) = "."
        nf == IF hasDot THEN PrefixLen(Tail(v), DigitChars) ELSE 0
        mag == DigitsValue(SubSeq(u, 1, ni)) * Pow10(nf)
                 + (IF nf > 0 THEN DigitsValue(SubSeq(v, 2, nf + 1)) ELSE 0)
        neg == hasSign /\ Head(t) = "-"
    IN  IF ni = 0 /\ nf = 0
        THEN [ok |-> FALSE, value |-> NaN, consumed |-> 0]
        ELSE [ok |-> TRUE,
              value |-> Rat(IF neg THEN -mag ELSE mag, Pow10(nf)),
              consumed |-> ws + (IF hasSign THEN 1 ELSE 0) + ni
                             + (IF hasDot THEN 1 + nf ELSE 0)]

\* parseFloat(person): String(null) is "null", which has no numeric prefix
ParseFloat(s) == IF s = Null THEN NaN ELSE NumericPrefix(s).value

----------------------------------------------------------------------------
(* Arrays of records *)

Undefined == [def |-> FALSE, first |-> 0, len |-> 0]
EmptyArray == [def |-> TRUE, first |-> 0, len |-> 0]
Run(f, n) == IF n = 0 THEN EmptyArray ELSE [def |-> TRUE, first |-> f, len |-> n]

\* a relative index of slice: negative counts from the end, then clamped
RelIndex(r, len) ==
    LET i == Trunc(r) IN IF i < 0 THEN Max(len + i, 0) ELSE Min(i, len)

\* Array.prototype.slice(start, end)
Slice(arr, start, end) ==
    LET k == RelIndex(start, arr.len)
        final == RelIndex(end, arr.len)
    IN  Run(arr.first + k, Max(final - k, 0))

\* parsedResponse.slice(parsedResponse.length - array_length, parsedResponse.length)
Window(arr, al) == Slice(arr, Minus(Num(arr.len), al), Num(arr.len))

----------------------------------------------------------------------------
(* Program constants *)

QuarterYear == 12961
Month == 4321
Week == 1009
Day == 145
SamplesPerHour == 6
MaxHours == 2160
HTTP_OK == 200

OnlyNumbers == "Only use numbers!"
BadHours == "Hours can't be less or equal to 0 or higher than 2160!"
NoAlert == ""

----------------------------------------------------------------------------
(* Inputs *)

Timeframes == {"QuarterYear", "Month", "Week", "Day"}
Presets == {"QuarterYear", "Month", "Week", "Day"}
\* the names updateGraph is called with: the presets, 'last', and a name it does not know
Timestamps == Presets \cup {"last", "Year"}

\* what the user may type into the prompt (or cancel it: Null)
PromptResults ==
    { Null, <<>>, <<" ">>,
      <<"a", "b", "c">>, <<"1", "2", "a">>,
      <<"0">>, <<"-", "5">>,
      <<"0", ".", "1">>, <<"0", ".", "5">>, <<"2", "4">>,
      <<"2", "1", "5", "9">>, <<"2", "1", "6", "0">>, <<"2", "1", "6", "1">> }

StoreSizes == (0 .. SmallMax) \cup {ShortStore, MidStore, BigStore, FullStore}

\* response bodies: text that is not JSON, a JSON object (an error document), or an array
\* of the series' records 1 .. n
Bodies ==
    { [kind |-> "malformed", arr |-> Undefined], [kind |-> "object", arr |-> Undefined] }
    \cup { [kind |-> "array", arr |-> Run(1, n)] : n \in StoreSizes }
NoBody == [kind |-> "none", arr |-> Undefined]

Statuses == {HTTP_OK, 500}

----------------------------------------------------------------------------
(* The page *)

Blank == [state |-> "blank", data |-> Undefined]
Cleared == [state |-> "cleared", data |-> Undefined]
Rendered(arr) == [state |-> "rendered", data |-> arr]

\* the record whose values lines 181-184 write: temp_parsedResponse[length-1]
LatestOf(arr) == [def |-> TRUE, rec |-> arr.first + arr.len - 1]
NoValue == [def |-> FALSE, rec |-> 0]

\* InitialLength with the Week and Month counts exchanged
InitialLength_Swapped(timeframe) ==
    IF timeframe = "Week" THEN Num(Month)
    ELSE IF timeframe = "Month" THEN Num(Week)
    ELSE Num(QuarterYear)

\* the top-level script: array_length from options.timeframe
InitialLength(timeframe) ==
    IF timeframe = "Week" THEN Num(Week)
    ELSE IF timeframe = "Month" THEN Num(Month)
    ELSE Num(QuarterYear)

Did(op, name, person, status, body, alert, threw, cleared, rendered) ==
    [op |-> op, name |-> name, person |-> person, status |-> status, body |-> body,
     alert |-> alert, threw |-> threw, cleared |-> cleared, rendered |-> rendered]

Init ==
    /\ options \in [timeframe : Timeframes]
    /\ array_length = InitialLength(options.timeframe)
    /\ temp_parsedResponse = Undefined
    /\ graph = Undefined
    /\ chart = Blank
    /\ valueFields = NoValue
    /\ inflight = 0
    /\ loads = 0
    /\ windowRequested = FALSE
    /\ last = Did("script", "", <<>>, 0, NoBody, NoAlert, FALSE, FALSE, FALSE)

----------------------------------------------------------------------------
(* loadData: starts the fetch (DOMContentLoaded calls it first) *)

LoadData ==
    /\ loads < MaxLoads
    /\ loads' = loads + 1
    /\ inflight' = inflight + 1
    /\ last' = Did("loadData", "", <<>>, 0, NoBody, NoAlert, FALSE, FALSE, FALSE)
    /\ UNCHANGED <<options, array_length, temp_parsedResponse, graph, chart,
                   valueFields, windowRequested>>

\* response.json() rejects (malformed text), or the callback throws at line 64
\* because a JSON object has no slice method: .catch logs, nothing is assigned
ResponseRejected(body) == body.kind \in {"malformed", "object"}

\* addContents throws at line 181 when the store has no last element
AddContentsThrows(store) == store.len = 0

(* The promise chain of one fetch, run when its response arrives.  A status   *)
(* other than 200 is logged and the chain goes on.                            *)
Response(status, body) ==
    /\ inflight > 0
    /\ inflight' = inflight - 1
    /\ UNCHANGED <<options, array_length, loads, windowRequested>>
    /\ IF ResponseRejected(body)
       THEN /\ UNCHANGED <<temp_parsedResponse, graph, chart, valueFields>>
            /\ last' = Did("response", "", <<>>, status, body, NoAlert, TRUE, FALSE, FALSE)
       ELSE LET parsedResponse == Window(body.arr, array_length) IN
            /\ temp_parsedResponse' = body.arr
            /\ graph' = parsedResponse
            /\ IF AddContentsThrows(body.arr)
               THEN /\ UNCHANGED <<chart, valueFields>>
                    /\ last' = Did("response", "", <<>>, status, body, NoAlert, TRUE, FALSE, FALSE)
               ELSE /\ valueFields' = LatestOf(body.arr)
                    /\ chart' = Rendered(parsedResponse)
                    /\ last' = Did("response", "", <<>>, status, body, NoAlert, FALSE, FALSE, TRUE)

----------------------------------------------------------------------------
(* updateGraph *)

\* the switch of lines 194-210
NewLength(timestamp, al) ==
    CASE timestamp = "QuarterYear" -> Num(QuarterYear)
      [] timestamp = "Month" -> Num(Month)
      [] timestamp = "Week" -> Num(Week)
      [] timestamp = "Day" -> Num(Day)
      [] OTHER -> al

(* lines 212-247 with the sample count al: clearGraph, slice, new graph,      *)
(* addContents, render.  Reading slice of an undefined store throws at line   *)
(* 213, after the chart was cleared.                                          *)
Rebuild(al, op, name, person) ==
    IF ~temp_parsedResponse.def
    THEN /\ chart' = Cleared
         /\ UNCHANGED <<graph, valueFields>>
         /\ last' = Did(op, name, person, 0, NoBody, NoAlert, TRUE, TRUE, FALSE)
    ELSE LET parsedResponse == Window(temp_parsedResponse, al) IN
         /\ graph' = parsedResponse
         /\ IF AddContentsThrows(temp_parsedResponse)
            THEN /\ chart' = Cleared
                 /\ UNCHANGED valueFields
                 /\ last' = Did(op, name, person, 0, NoBody, NoAlert, TRUE, TRUE, FALSE)
            ELSE /\ valueFields' = LatestOf(temp_parsedResponse)
                 /\ chart' = Rendered(parsedResponse)
                 /\ last' = Did(op, name, person, 0, NoBody, NoAlert, FALSE, TRUE, TRUE)

UpdateGraph(timestamp) ==
    /\ loads >= 1
    /\ array_length' = NewLength(timestamp, array_length)
    /\ windowRequested' = TRUE
    /\ Rebuild(NewLength(timestamp, array_length), "updateGraph", timestamp, <<>>)
    /\ UNCHANGED <<options, temp_parsedResponse, inflight, loads>>

----------------------------------------------------------------------------
(* customTimestamp *)

\* OutOfRange with the upper bound made inclusive (> instead of >=)
OutOfRange_StrictUpper(hours) == Leq(hours, Num(0)) \/ Lt(Num(MaxHours), hours)

\* line 262
OutOfRange(hours) == Leq(hours, Num(0)) \/ Geq(hours, Num(MaxHours))

\* line 265
HoursToSamples(hours) == Times(hours, SamplesPerHour)

CustomTimestamp(person) ==
    LET hours == ParseFloat(person) IN
    /\ loads >= 1
    /\ windowRequested' = TRUE
    /\ UNCHANGED <<options, temp_parsedResponse, inflight, loads>>
    /\ IF IsNaN(hours)
       THEN /\ UNCHANGED <<array_length, graph, chart, valueFields>>
            /\ last' = Did("customTimestamp", "", person, 0, NoBody,
                           IF person = Null \/ person = <<>> THEN NoAlert ELSE OnlyNumbers,
                           FALSE, FALSE, FALSE)
       ELSE IF OutOfRange(hours)
       THEN /\ UNCHANGED <<array_length, graph, chart, valueFields>>
            /\ last' = Did("customTimestamp", "", person, 0, NoBody, BadHours,
                           FALSE, FALSE, FALSE)
       ELSE /\ array_length' = HoursToSamples(hours)
            /\ Rebuild(HoursToSamples(hours), "customTimestamp", "last", person)

----------------------------------------------------------------------------

Next ==
    \/ LoadData
    \/ \E status \in Statuses, body \in Bodies : Response(status, body)
    \/ \E timestamp \in Timestamps : UpdateGraph(timestamp)
    \/ \E person \in PromptResults : CustomTimestamp(person)

Spec == Init /\ [][Next]_vars

----------------------------------------------------------------------------
(* Vocabulary of the properties *)

\* Ready: a history with at least one record is stored and its window is shown
Ready == temp_parsedResponse.def /\ temp_parsedResponse.len > 0 /\ chart.state = "rendered"

IsWindowChange(l) == l.op \in {"updateGraph", "customTimestamp"}

\* the last min(n, s) records of arr, in order
LastRecords(arr, n) ==
    LET m == Min(n, arr.len) IN Run(arr.first + arr.len - m, m)

\* a custom input the documentation rejects: empty or cancelled, h <= 0, h >= 2160
RejectedInput(p) ==
    \/ p = Null
    \/ p = <<>>
    \/ LET h == ParseFloat(p) IN
         ~IsNaN(h) /\ (h.n <= 0 \/ h.n >= MaxHours * h.d)

\* a custom input with 0 < h < 2160
AcceptedInput(p) ==
    LET h == ParseFloat(p) IN ~IsNaN(h) /\ h.n > 0 /\ h.n < MaxHours * h.d

\* a non-empty string that is not a number from its first to its last character
NotANumberAsWhole(p) ==
    /\ p # Null
    /\ p # <<>>
    /\ ~(NumericPrefix(p).ok /\ NumericPrefix(p).consumed = Len(p))

\* a load attempt the documentation calls failed
FailedLoad(l) ==
    /\ l.op = "response"
    /\ \/ l.status # HTTP_OK
       \/ l.body.kind = "malformed"
       \/ (l.body.kind = "array" /\ l.body.arr.len = 0)

----------------------------------------------------------------------------
(* Properties *)

\* C1: whenever a window change or a load has rendered the chart with an integer
\* sample count n on a store of size s, the chart holds exactly min(n, s) records,
\* the most recent ones in original order.
C1_WindowIsLastMinNS ==
    (last.rendered /\ IsInteger(array_length))
        => chart.data = LastRecords(temp_parsedResponse, array_length.n)

\* C2: on a Ready page an accepted custom input h (0 < h < 2160) sets array_length
\* to floor(h*6), and updateGraph('last') leaves array_length as it was.
C2_CustomIsFloorAndLastReapplies ==
    [][ /\ (Ready /\ last'.op = "customTimestamp" /\ AcceptedInput(last'.person))
            => array_length' = Num(Floor(Times(ParseFloat(last'.person), SamplesPerHour)))
        /\ (last'.op = "updateGraph" /\ last'.name = "last")
            => array_length' = array_length ]_vars

\* C3: in every reachable state array_length is an integer and at least 1.
C3_SampleCountIsPositiveInteger ==
    IsInteger(array_length) /\ Geq(array_length, Num(1))

C5_NonNumericIsRefused ==
    [][ (Ready /\ last'.op = "customTimestamp" /\ NotANumberAsWhole(last'.person))
            => /\ last'.alert = OnlyNumbers
               /\ array_length' = array_length
               /\ chart' = chart
               /\ graph' = graph ]_vars

\* C6: in the Ready state updateGraph with a name it does not know leaves the
\* sample count and the chart as they were and neither clears nor rebuilds the chart.
C6_UnknownPresetNoRerender ==
    [][ (Ready /\ last'.op = "updateGraph" /\ last'.name \notin (Presets \cup {"last"}))
            => /\ array_length' = array_length
               /\ chart' = chart
               /\ ~last'.cleared
               /\ ~last'.rendered ]_vars

\* C7: a window change made while a fetch is in flight does not change the sample
\* count, does not read a store that is not loaded, and does not clear or rebuild
\* the chart.
C7_NoWindowChangeDuringLoad ==
    [][ (inflight > 0 /\ IsWindowChange(last'))
            => /\ array_length' = array_length
               /\ chart' = chart
               /\ ~last'.threw
               /\ ~last'.cleared ]_vars

\* C8: a failed load (status other than 200, malformed body, or zero records)
\* leaves the stored history, the chart and the value fields as they were.
C8_FailedLoadKeepsStore ==
    [][ FailedLoad(last')
            => /\ temp_parsedResponse' = temp_parsedResponse
               /\ chart' = chart
               /\ valueFields' = valueFields ]_vars

\* C9 as stated: Ready with no window request made yet means array_length = 12961.
C9_DefaultIsQuarterYear ==
    (Ready /\ ~windowRequested) => array_length = Num(QuarterYear)

\* C9 amended: a load of at least one record makes the page Ready, and while no
\* window request has been made the sample count is the one options.timeframe
\* names: 1009 for Week, 4321 for Month, 12961 for anything else.
C9_DefaultFollowsTimeframe ==
    /\ (last.op = "response" /\ last.body.kind = "array" /\ last.body.arr.len > 0)
           => (Ready /\ temp_parsedResponse = last.body.arr)
    /\ (Ready /\ ~windowRequested)
           => array_length = Num(CASE options.timeframe = "Week" -> 1009
                                   [] options.timeframe = "Month" -> 4321
                                   [] OTHER -> 12961)

\* C9 witness: the first load has succeeded on a page whose timeframe option is Week
C9_Witness ==
    /\ Ready
    /\ ~windowRequested
    /\ last.op = "response"
    /\ options.timeframe = "Week"
    /\ array_length = Num(Week)

\* C10: once a history is stored, a window change issues no fetch and leaves the
\* stored history as it was, and selecting QuarterYear shows min(12961, s) records.
C10_FetchOnceSliceMany ==
    [][ (temp_parsedResponse.def /\ temp_parsedResponse.len > 0 /\ IsWindowChange(last'))
            => /\ loads' = loads
               /\ inflight' = inflight
               /\ temp_parsedResponse' = temp_parsedResponse
               /\ (last'.op = "updateGraph" /\ last'.name = "QuarterYear")
                      => /\ last'.rendered
                         /\ chart'.data.len = Min(QuarterYear, temp_parsedResponse.len) ]_vars

\* the frame part of C10 alone: window changes issue no fetch and keep the store
C10_StoreFrame ==
    [][ IsWindowChange(last')
            => /\ loads' = loads
               /\ inflight' = inflight
               /\ temp_parsedResponse' = temp_parsedResponse ]_vars

====
